---- MODULE Spec2Model ----
(***************************************************************************)
(* Model of src/nutrition.py: the per-100g food table `foodf`, the ranking *)
(* function macro_perRupee and the class Stats with its three views.       *)
(*                                                                         *)
(* Numbers.  The program computes on float64.  Here a float is a record    *)
(* [k, num, den]: k = "num" is the exact rational num/den in lowest terms  *)
(* (den > 0), k = "nan", "inf", "-inf" are the IEEE specials that pandas   *)
(* produces for missing cells and for division by zero.  Rounding error is *)
(* not modelled: equalities below are the exact-arithmetic reading of the  *)
(* program's float equalities.                                             *)
(***************************************************************************)
EXTENDS Integers, Sequences, FiniteSets, TLC

VARIABLES foodf, insts, ret

vars == <<foodf, insts, ret>>

(* ------------------------------ floats ------------------------------- *)

Abs(x) == IF x < 0 THEN -x ELSE x

RECURSIVE GCD(_, _)
GCD(a, b) == IF b = 0 THEN a ELSE GCD(b, a % b)

Rat(n, d) ==
    LET g == GCD(Abs(n), Abs(d))
        s == IF d < 0 THEN -1 ELSE 1
    IN  [k |-> "num", num |-> s * (n \div g), den |-> s * (d \div g)]

\* (n1/d1) * (n2/d2), cancelling across before multiplying
RatMul(n1, d1, n2, d2) ==
    LET g1 == GCD(Abs(n1), Abs(d2))
        g2 == GCD(Abs(n2), Abs(d1))
    IN  IF n1 = 0 \/ n2 = 0 THEN Rat(0, 1)
        ELSE Rat((n1 \div g1) * (n2 \div g2), (d1 \div g2) * (d2 \div g1))

NaN == [k |-> "nan", num |-> 0, den |-> 1]

Inf == [k |-> "inf", num |-> 1, den |-> 0]

NegInf == [k |-> "-inf", num |-> -1, den |-> 0]

IsNaN(a) == a.k = "nan"

IsFinite(a) == a.k = "num"

\* sign of a non-NaN float: -1, 0 or 1
Sign(a) == IF a.num > 0 THEN 1 ELSE IF a.num < 0 THEN -1 ELSE 0

Signed(s) == IF s > 0 THEN Inf ELSE IF s < 0 THEN NegInf ELSE NaN

FAdd(a, b) ==
    IF IsNaN(a) \/ IsNaN(b) THEN NaN
    ELSE IF IsFinite(a) /\ IsFinite(b)
         THEN LET g == GCD(a.den, b.den)
              IN  Rat(a.num * (b.den \div g) + b.num * (a.den \div g),
                      (a.den \div g) * b.den)
    ELSE IF IsFinite(a) THEN b
    ELSE IF IsFinite(b) THEN a
    ELSE IF a.k = b.k THEN a ELSE NaN

FMul(a, b) ==
    IF IsNaN(a) \/ IsNaN(b) THEN NaN
    ELSE IF IsFinite(a) /\ IsFinite(b)
         THEN RatMul(a.num, a.den, b.num, b.den)
    ELSE Signed(Sign(a) * Sign(b))

FDiv(a, b) ==
    IF IsNaN(a) \/ IsNaN(b) THEN NaN
    ELSE IF IsFinite(b)
         THEN IF b.num = 0 THEN Signed(Sign(a))
              ELSE IF IsFinite(a) THEN RatMul(a.num, a.den, b.den, b.num)
              ELSE Signed(Sign(a) * Sign(b))
    ELSE IF IsFinite(a) THEN Rat(0, 1) ELSE NaN

\* a <= b on non-NaN floats
FLeq(a, b) ==
    IF IsFinite(a) /\ IsFinite(b) THEN a.num * b.den <= b.num * a.den
    ELSE IF a.k = b.k THEN TRUE
    ELSE a.k = "-inf" \/ b.k = "inf"

(* ------------------------- strings and indexes ------------------------ *)

\* Python's ordering of the strings used as food names, least first
StrOrder ==
    << "almond", "banana", "burger", "curd", "egg", "ghee", "milk", "oats",
       "paneer", "peanut butter", "pizza", "rice", "soya granules",
       "whey isolate" >>

Range(s) == {s[i] : i \in 1..Len(s)}

IsIn(S) == [n \in Range(StrOrder) |-> n \in S]

\* the names of S as a sorted index
SortNames(S) == LET in == IsIn(S) IN SelectSeq(StrOrder, LAMBDA n : in[n])

\* the difference taken the wrong way round: b.difference(a)
IndexDifferenceSwapped(a, b) == SortNames(Range(b) \ Range(a))

IndexDifference(a, b) == SortNames(Range(a) \ Range(b))

IndexUnion(a, b) == SortNames(Range(a) \cup Range(b))

(* ------------------------------ the table ----------------------------- *)

food_cols == <<"food", "energy", "carbs", "protein", "fat", "price">>

food_data ==
    << <<"milk",          Rat(582, 10),  Rat(48, 10),  Rat(3, 1),    Rat(3, 1),    Rat(636, 100)>>,
       <<"oats",          Rat(379, 1),   Rat(678, 10), Rat(116, 10), Rat(9, 1),    Rat(1513, 100)>>,
       <<"banana",        Rat(89, 1),    Rat(23, 1),   Rat(11, 10),  Rat(3, 10),   Rat(37, 10)>>,
       <<"peanut butter", Rat(6125, 10), Rat(19, 1),   Rat(26, 1),   Rat(49, 1),   Rat(349, 10)>>,
       <<"curd",          Rat(75, 1),    Rat(5, 1),    Rat(37, 10),  Rat(45, 10),  Rat(9, 1)>>,
       <<"egg",           Rat(155, 1),   Rat(11, 10),  Rat(13, 1),   Rat(11, 1),   Rat(1066, 100)>>,
       <<"whey isolate",  Rat(3663, 10), Rat(166, 100), Rat(90, 1),  Rat(1, 1),    Rat(210, 1)>>,
       <<"soya granules", Rat(3541, 10), Rat(335, 10), Rat(532, 10), Rat(82, 100), Rat(30, 1)>>,
       <<"paneer",        Rat(296, 1),   Rat(45, 10),  Rat(20, 1),   Rat(22, 1),   Rat(32, 1)>>,
       <<"rice",          Rat(344, 1),   Rat(77, 1),   Rat(67, 10),  Rat(5, 10),   Rat(98, 10)>>,
       <<"almond",        Rat(194, 1),   Rat(2, 1),    Rat(7, 1),    Rat(17, 1),   Rat(80, 1)>>,
       <<"ghee",          Rat(897, 1),   Rat(0, 1),    Rat(0, 1),    Rat(997, 10), Rat(65, 1)>> >>

\* pd.DataFrame(data, columns=cols) followed by set_index(cols[1]):
\* a frame is [index, columns, val], val[row][column] a float
DataFrame(data, cols) ==
    [ index   |-> [i \in 1..Len(data) |-> data[i][1]],
      columns |-> Tail(cols),
      val     |-> [n \in {data[i][1] : i \in 1..Len(data)} |->
                     LET i == CHOOSE j \in 1..Len(data) : data[j][1] = n
                     IN  [c \in Range(Tail(cols)) |->
                            data[i][CHOOSE j \in 1..Len(cols) : cols[j] = c]]] ]

sort_index(df) == [df EXCEPT !.index = SortNames(Range(df.index))]

\* the module-level table as built at import
FoodTable == sort_index(DataFrame(food_data, food_cols))

(* ------------------------------- inputs ------------------------------- *)

\* A Python value passed as an argument: its type and, for a str, its text
\* (repr) or, for a dict or a pandas Series, its items (data: name -> grams).
NoData == [n \in {} |-> NaN]

PyStr(s) == [type |-> "str", repr |-> s, data |-> NoData]

PyOther(t, r) == [type |-> t, repr |-> r, data |-> NoData]

PyMapping(t, d) == [type |-> t, repr |-> "", data |-> d]

\* every mapping of some of `names` to grams drawn from `grams`
RecordsOver(names, grams) ==
    UNION {[S -> grams] : S \in SUBSET names}

(* --------------------------- macro_perRupee --------------------------- *)

\* a Series is [index, val, name], val[key] a float
Column(df, c) ==
    [index |-> df.index, val |-> [n \in Range(df.index) |-> df.val[n][c]], name |-> c]

\* the quotient taken the wrong way round: s2 / s1
SeriesDivSwapped(s1, s2) ==
    [index |-> s1.index,
     val   |-> [n \in Range(s1.index) |-> FDiv(s2.val[n], s1.val[n])],
     name  |-> s1.name]

\* s1 / s2 on two Series with the same index
SeriesDiv(s1, s2) ==
    [index |-> s1.index,
     val   |-> [n \in Range(s1.index) |-> FDiv(s1.val[n], s2.val[n])],
     name  |-> s1.name]

RemoveAt(s, i) == SubSeq(s, 1, i - 1) \o SubSeq(s, i + 1, Len(s))

\* the keys in ascending order: sort_values() without ascending=False
RECURSIVE ArgSortAsc(_, _, _)
ArgSortAsc(idx, val, stable) ==
    IF idx = <<>> THEN <<>>
    ELSE LET low  == {i \in 1..Len(idx) :
                         \A j \in 1..Len(idx) : FLeq(val[idx[i]], val[idx[j]])}
             pick == IF stable
                     THEN CHOOSE i \in low : \A j \in low : i <= j
                     ELSE CHOOSE i \in low : \A j \in low : i >= j
         IN  <<idx[pick]>> \o ArgSortAsc(RemoveAt(idx, pick), val, stable)

\* The keys of idx ordered by descending value.  Equal values: sort_values
\* is called with the default kind "quicksort", which numpy does not promise
\* to be stable, so `stable` chooses between the two tie orders.
RECURSIVE ArgSortDesc(_, _, _)
ArgSortDesc(idx, val, stable) ==
    IF idx = <<>> THEN <<>>
    ELSE LET top  == {i \in 1..Len(idx) :
                         \A j \in 1..Len(idx) : FLeq(val[idx[j]], val[idx[i]])}
             pick == IF stable
                     THEN CHOOSE i \in top : \A j \in top : i <= j
                     ELSE CHOOSE i \in top : \A j \in top : i >= j
         IN  <<idx[pick]>> \o ArgSortDesc(RemoveAt(idx, pick), val, stable)

\* Series.sort_values(ascending=False), NaN entries last
sort_values_desc(sr, stable) ==
    LET ok  == SelectSeq(sr.index, LAMBDA n : ~IsNaN(sr.val[n]))
        nan == SelectSeq(sr.index, LAMBDA n : IsNaN(sr.val[n]))
    IN  [sr EXCEPT !.index = ArgSortDesc(ok, sr.val, stable) \o nan]

NoSeries == [index |-> <<>>, val |-> NoData, name |-> ""]

\* every column of the table taken as a macro, price included
macros_all == Tail(food_cols)

macros_av == <<"energy", "carbs", "protein", "fat">>

\* the outcome of macro_perRupee(macro): the exception raised, if any, the
\* Series returned, and the table as the call leaves it
macro_perRupee(df, macro, stable) ==
    IF macro.type # "str"
        THEN [status |-> "TypeError", value |-> NoSeries, foodf |-> df]
    ELSE IF macro.repr \notin Range(macros_av)
        THEN [status |-> "ValueError", value |-> NoSeries, foodf |-> df]
    ELSE LET result == SeriesDiv(Column(df, macro.repr), Column(df, "price"))
             named  == [result EXCEPT !.name = macro.repr \o "_per_rupee"]
         IN  [status |-> "ok", value |-> sort_values_desc(named, stable), foodf |-> df]

(* -------------------------------- Stats ------------------------------- *)

\* pd.Series(consumption) for a dict or a Series
Series(consumption) ==
    [index |-> SortNames(DOMAIN consumption.data),
     val   |-> consumption.data,
     name  |-> ""]

\* the division by 100 left out
FrameDivSkipped(df, k) == df

\* df / k: a new frame, every cell divided by the float k
FrameDiv(df, k) ==
    [df EXCEPT !.val = [n \in Range(df.index) |->
                          [c \in Range(df.columns) |-> FDiv(df.val[n][c], k)]]]

\* df.multiply(sr, axis=0): rows aligned on the union of the two indexes,
\* a row missing on either side is all NaN
Multiply(df, sr) ==
    LET idx == IndexUnion(df.index, sr.index)
    IN  [index   |-> idx,
         columns |-> df.columns,
         val     |-> [n \in Range(idx) |->
                        [c \in Range(df.columns) |->
                           IF n \in Range(df.index) /\ n \in Range(sr.index)
                           THEN FMul(df.val[n][c], sr.val[n])
                           ELSE NaN]]]

\* the sum with skipna=False: one NaN makes the total NaN
RECURSIVE SumKeepNa(_, _)
SumKeepNa(idx, val) ==
    IF idx = <<>> THEN Rat(0, 1)
    ELSE FAdd(val[Head(idx)], SumKeepNa(Tail(idx), val))

\* the sum of val over the keys of idx in order, NaN skipped (skipna=True)
RECURSIVE SumSkipNa(_, _)
SumSkipNa(idx, val) ==
    IF idx = <<>> THEN Rat(0, 1)
    ELSE LET rest == SumSkipNa(Tail(idx), val)
         IN  IF IsNaN(val[Head(idx)]) THEN rest ELSE FAdd(val[Head(idx)], rest)

\* df.sum(axis=0): one total per column
FrameSum(df) ==
    [index |-> df.columns,
     val   |-> [c \in Range(df.columns) |->
                  SumSkipNa(df.index, [n \in Range(df.index) |-> df.val[n][c]])],
     name  |-> ""]

\* sr[keys]
Select(sr, keys) ==
    [index |-> keys, val |-> [c \in Range(keys) |-> sr.val[c]], name |-> sr.name]

\* the share left as a fraction: sr / d without the factor k
Fraction(sr, d, k) ==
    [sr EXCEPT !.val = [c \in Range(sr.index) |-> FDiv(sr.val[c], d)]]

\* (sr / d) * k for floats d and k
Percent(sr, d, k) ==
    [sr EXCEPT !.val = [c \in Range(sr.index) |-> FMul(FDiv(sr.val[c], d), k)]]

\* df.dropna(): the rows without a NaN cell
dropna(df) ==
    [df EXCEPT !.index = SelectSeq(df.index,
                   LAMBDA n : \A c \in Range(df.columns) : ~IsNaN(df.val[n][c])),
               !.val = [n \in {m \in Range(df.index) :
                                 \A c \in Range(df.columns) : ~IsNaN(df.val[m][c])}
                          |-> df.val[n]]]

NoWarning == [names |-> <<>>, pronoun |-> ""]

NoSelf ==
    [consumption_sr |-> NoSeries, consumption_df |-> NoSeries,
     emp_sr |-> NoSeries, macro_sr |-> NoSeries, mpb_sr |-> NoSeries]

\* the attributes Stats.__init__ sets on self
StatsAttrs(df, consumption) ==
    LET consumption_sr == Series(consumption)
        consumption_df == Multiply(FrameDiv(df, Rat(100, 1)), consumption_sr)
        emp_sr         == FrameSum(consumption_df)
        macro_sr       == Select(emp_sr, <<"carbs", "protein", "fat">>)
        mpb_sr         == Percent(macro_sr, SumSkipNa(macro_sr.index, macro_sr.val),
                                  Rat(100, 1))
    IN  [consumption_sr |-> consumption_sr, consumption_df |-> consumption_df,
         emp_sr |-> emp_sr, macro_sr |-> macro_sr, mpb_sr |-> mpb_sr]

\* the UserWarning of Stats.__init__, NoWarning when none is emitted
UnavWarning(df, consumption) ==
    LET unav_food == IndexDifference(Series(consumption).index, df.index)
    IN  IF Len(unav_food) > 0
        THEN [names |-> unav_food,
              pronoun |-> IF Len(unav_food) = 1 THEN "it" ELSE "they"]
        ELSE NoWarning

\* Stats.__init__ without its isinstance guard
Stats__init__Unchecked(df, consumption) ==
    [status |-> "ok", warning |-> UnavWarning(df, consumption),
     self |-> StatsAttrs(df, consumption), foodf |-> df]

\* Stats.__init__ scaling the shared table in place (foodf /= 100)
Stats__init__InPlace(df, consumption) ==
    IF consumption.type \notin {"dict", "Series"}
        THEN [status |-> "TypeError", warning |-> NoWarning, self |-> NoSelf,
              foodf |-> df]
    ELSE [status |-> "ok", warning |-> UnavWarning(df, consumption),
          self |-> StatsAttrs(df, consumption), foodf |-> FrameDiv(df, Rat(100, 1))]

\* the outcome of Stats(consumption): the exception raised, if any, the
\* warning emitted, the new object, and the table as the call leaves it
Stats__init__(df, consumption) ==
    IF consumption.type \notin {"dict", "Series"}
        THEN [status |-> "TypeError", warning |-> NoWarning, self |-> NoSelf,
              foodf |-> df]
    ELSE [status |-> "ok", warning |-> UnavWarning(df, consumption),
          self |-> StatsAttrs(df, consumption), foodf |-> df]

stats_breakup(self) == dropna(self.consumption_df)

consolidated_stats(self) == self.emp_sr

macro_breakup(self) == self.mpb_sr

\* the attributes kept on the class: every object sees the newest ones
NewObjectShared(objs, self) == [i \in 1..(Len(objs) + 1) |-> self]

\* a new object joins the live objects; the objects already there keep
\* their own attributes
NewObject(objs, self) == Append(objs, self)

(* --------------------------- the state machine ------------------------ *)

\* the most Stats objects alive in one run
MaxInst == 2

KnownNames == {"milk", "curd", "ghee"}

UnknownNames == {"pizza", "burger"}

Grams == {Rat(-9, 1), Rat(0, 1), Rat(5, 2), Rat(11, 1)}

NotMappings == {PyOther("list", "[('milk', 500)]"), PyOther("NoneType", "None"),
                PyStr("milk")}

\* the arguments tried for Stats(consumption)
StatsArgs ==
    {PyMapping(t, d) : t \in {"dict", "Series"},
                       d \in RecordsOver(KnownNames \cup UnknownNames, Grams)}
      \cup NotMappings

\* the arguments tried when several objects are built in one run
FewStatsArgs ==
    {PyMapping("dict", d) : d \in RecordsOver({"milk", "pizza"}, {Rat(11, 1)})
                                     \cup RecordsOver({"curd"}, {Rat(-9, 1)})}
      \cup {PyOther("list", "[('milk', 500)]")}

\* the arguments tried for macro_perRupee(macro)
MacroArgs ==
    {PyStr(m) : m \in {"energy", "carbs", "protein", "fat", "price", "calcium"}}
      \cup {PyOther("int", "42"), PyOther("NoneType", "None")}

None == PyOther("NoneType", "None")

\* ret: the last call made, its argument, the exception it raised ("ok" if
\* none), the object it built or was called on, the value it returned and
\* the warning it emitted
Init ==
    /\ foodf = FoodTable
    /\ insts = <<>>
    /\ ret = [op |-> "import", arg |-> None, status |-> "ok", inst |-> 0,
              value |-> NoSeries, warning |-> NoWarning]

Construct(c) ==
    LET r == Stats__init__(foodf, c)
    IN  /\ foodf' = r.foodf
        /\ insts' = IF r.status = "ok" THEN NewObject(insts, r.self) ELSE insts
        /\ ret' = [op |-> "Stats", arg |-> c, status |-> r.status,
                   inst |-> IF r.status = "ok" THEN Len(insts) + 1 ELSE 0,
                   value |-> NoSeries, warning |-> r.warning]

NewStats(c) == Len(insts) < MaxInst /\ Construct(c)

FirstStats(c) == insts = <<>> /\ Construct(c)

CallMacroPerRupee(m, stable) ==
    LET r == macro_perRupee(foodf, m, stable)
    IN  /\ foodf' = r.foodf
        /\ ret' = [op |-> "macro_perRupee", arg |-> m, status |-> r.status,
                   inst |-> 0, value |-> r.value, warning |-> NoWarning]
        /\ UNCHANGED insts

Returned(op, i, v) ==
    [op |-> op, arg |-> None, status |-> "ok", inst |-> i, value |-> v,
     warning |-> NoWarning]

CallStatsBreakup(i) ==
    /\ ret' = Returned("stats_breakup", i, stats_breakup(insts[i]))
    /\ UNCHANGED <<foodf, insts>>

CallConsolidatedStats(i) ==
    /\ ret' = Returned("consolidated_stats", i, consolidated_stats(insts[i]))
    /\ UNCHANGED <<foodf, insts>>

CallMacroBreakup(i) ==
    /\ ret' = Returned("macro_breakup", i, macro_breakup(insts[i]))
    /\ UNCHANGED <<foodf, insts>>

Next ==
    \/ \E c \in FewStatsArgs : NewStats(c)
    \/ \E m \in MacroArgs, stable \in BOOLEAN : CallMacroPerRupee(m, stable)
    \/ \E i \in 1..Len(insts) : CallStatsBreakup(i)
    \/ \E i \in 1..Len(insts) : CallConsolidatedStats(i)
    \/ \E i \in 1..Len(insts) : CallMacroBreakup(i)

\* any interleaving of rankings, constructions and queries
Spec == Init /\ [][Next]_vars

NextStats ==
    \/ \E c \in StatsArgs : FirstStats(c)
    \/ \E i \in 1..Len(insts) : CallStatsBreakup(i)
    \/ \E i \in 1..Len(insts) : CallConsolidatedStats(i)
    \/ \E i \in 1..Len(insts) : CallMacroBreakup(i)

\* one Stats object built from any of StatsArgs, then queried
SpecStats == Init /\ [][NextStats]_vars

(* ------------------------------ properties ---------------------------- *)

\* the spec's error names for the exceptions the program raises
InvalidArgument == "ValueError"

TypeMismatch == "TypeError"

Attributes == {"energy", "carbs", "protein", "fat", "price"}

Macros == {"carbs", "protein", "fat"}

TableNames == Range(FoodTable.index)

IsMapping(arg) == arg.type \in {"dict", "Series"}

\* the names of a consumption record that the table lacks, and has
AbsentNames(arg) == DOMAIN arg.data \ TableNames

KnownOf(arg) == DOMAIN arg.data \cap TableNames

WithoutAbsent(arg) == [arg EXCEPT !.data = [n \in KnownOf(arg) |-> arg.data[n]]]

Zero == Rat(0, 1)

Hundred == Rat(100, 1)

\* the plain sum of column c over the rows of frame df
RECURSIVE ColumnTotal(_, _, _)
ColumnTotal(df, c, k) ==
    IF k = 0 THEN Zero ELSE FAdd(ColumnTotal(df, c, k - 1), df.val[df.index[k]][c])

\* position of name n in the table's index
TablePos(n) == CHOOSE i \in 1..Len(FoodTable.index) : FoodTable.index[i] = n

\* C1: building a Stats from a record with names the table lacks raises
\* nothing, warns with exactly those names, keeps them out of
\* stats_breakup(), and has the totals and percentages of the record
\* without those names.
C1_DiscardUnknown ==
    (ret.op = "Stats" /\ IsMapping(ret.arg) /\ AbsentNames(ret.arg) # {}) =>
        /\ ret.status = "ok"
        /\ ret.inst \in 1..Len(insts)
        /\ Range(ret.warning.names) = AbsentNames(ret.arg)
        /\ Len(ret.warning.names) = Cardinality(AbsentNames(ret.arg))
        /\ Range(stats_breakup(insts[ret.inst]).index) \cap AbsentNames(ret.arg) = {}
        /\ LET clean == Stats__init__(FoodTable, WithoutAbsent(ret.arg))
           IN  /\ clean.status = "ok"
               /\ clean.warning = NoWarning
               /\ consolidated_stats(insts[ret.inst]) = consolidated_stats(clean.self)
               /\ macro_breakup(insts[ret.inst]) = macro_breakup(clean.self)

\* a record with two absent names and a known food at nonzero grams was built
C1_Witness ==
    /\ ret.op = "Stats" /\ ret.status = "ok"
    /\ AbsentNames(ret.arg) = {"pizza", "burger"}
    /\ ret.warning.pronoun = "they"
    /\ "milk" \in DOMAIN ret.arg.data /\ ret.arg.data["milk"] = Rat(11, 1)

\* C2: stats_breakup() has a row for exactly the foods in both the record
\* and the table, and the row of food f at g grams holds
\* reference(f) * g / 100 in each of the five attributes.
C2_Scaling ==
    ret.op = "stats_breakup" =>
        LET rec == insts[ret.inst].consumption_sr.val
            both == DOMAIN rec \cap TableNames
        IN  /\ Range(ret.value.index) = both
            /\ Len(ret.value.index) = Cardinality(both)
            /\ DOMAIN ret.value.val = both
            /\ \A f \in both : \A a \in Attributes :
                 ret.value.val[f][a] = FDiv(FMul(FoodTable.val[f][a], rec[f]), Hundred)

\* a breakdown with a row at zero grams, a row at negative grams, a row at
\* fractional grams and an unknown name left out was returned
C2_Witness ==
    /\ ret.op = "stats_breakup"
    /\ LET rec == insts[ret.inst].consumption_sr.val
       IN  /\ DOMAIN rec = {"milk", "curd", "ghee", "pizza"}
           /\ rec["milk"] = Rat(0, 1) /\ rec["curd"] = Rat(-9, 1)
           /\ rec["ghee"] = Rat(5, 2)
    /\ Len(ret.value.index) = 3

\* C3: each value of consolidated_stats() is the sum of its column over the
\* rows of stats_breakup(); with no known food every total is zero.
C3_Summation ==
    ret.op = "consolidated_stats" =>
        LET rows == stats_breakup(insts[ret.inst])
        IN  /\ DOMAIN ret.value.val = Attributes
            /\ \A a \in Attributes :
                 ret.value.val[a] = ColumnTotal(rows, a, Len(rows.index))
            /\ DOMAIN insts[ret.inst].consumption_sr.val \cap TableNames = {}
                 => \A a \in Attributes : ret.value.val[a] = Zero

\* totals over two known rows and an unknown name were returned
C3_Witness ==
    /\ ret.op = "consolidated_stats"
    /\ DOMAIN insts[ret.inst].consumption_sr.val = {"milk", "ghee", "burger"}
    /\ ret.value.val["fat"] # Zero

\* the three percentages are numbers and add up to 100
SumsToHundred(mpb) ==
    /\ \A m \in Macros : IsFinite(mpb.val[m])
    /\ FAdd(FAdd(mpb.val["carbs"], mpb.val["protein"]), mpb.val["fat"]) = Hundred

C5_Ratio ==
    (ret.op = "macro_perRupee" /\ ret.status = "ok") =>
        /\ Range(ret.value.index) = TableNames
        /\ Len(ret.value.index) = Cardinality(TableNames)
        /\ DOMAIN ret.value.val = TableNames
        /\ \A f \in TableNames :
             ret.value.val[f] =
                 FDiv(FoodTable.val[f][ret.arg.repr], FoodTable.val[f]["price"])

\* the protein ranking was returned, with whey isolate at 90 / 210 = 3 / 7
C5_Witness ==
    /\ ret.op = "macro_perRupee" /\ ret.status = "ok"
    /\ ret.arg.repr = "protein"
    /\ ret.value.val["whey isolate"] = Rat(3, 7)

C7_InvalidMacro ==
    (ret.op = "macro_perRupee" /\ ret.arg.type = "str"
       /\ ret.arg.repr \notin {"energy", "carbs", "protein", "fat"}) =>
        /\ ret.status = InvalidArgument
        /\ ret.value = NoSeries
        /\ foodf = FoodTable

\* macro_perRupee("price") was called and failed
C7_Witness ==
    /\ ret.op = "macro_perRupee"
    /\ ret.arg = PyStr("price")
    /\ ret.status = "ValueError"

\* C8 as stated: Stats of an input that is neither a dict nor a Series fails
\* with InvalidArgument, with no warning and no object built.
C8_FailsInvalidArgument ==
    (ret.op = "Stats" /\ ~IsMapping(ret.arg)) =>
        /\ ret.status = InvalidArgument
        /\ ret.warning = NoWarning
        /\ ret.inst = 0

\* C8 amended: Stats of an input that is neither a dict nor a Series fails
\* with TypeMismatch (TypeError), emits no warning and builds no object: the
\* live objects and the table are as before the call.
C8_FailsTypeMismatch ==
    [][(ret'.op = "Stats" /\ ~IsMapping(ret'.arg)) =>
          /\ ret'.status = TypeMismatch
          /\ ret'.warning = NoWarning
          /\ ret'.inst = 0
          /\ insts' = insts
          /\ foodf' = foodf]_vars

\* Stats of a list was attempted while an object was alive, and raised
C8_Witness ==
    /\ ret.op = "Stats"
    /\ ret.arg.type = "list"
    /\ ret.status = "TypeError"
    /\ Len(insts) = 1

\* C9: whatever calls were made, the table holds the names it was built
\* with, in name order, with the per-100g values it was built with.
C9_TableUnchanged ==
    /\ foodf = FoodTable
    /\ foodf.index = << "almond", "banana", "curd", "egg", "ghee", "milk", "oats",
                        "paneer", "peanut butter", "rice", "soya granules",
                        "whey isolate" >>
    /\ \A i \in 1..Len(food_data) : \A j \in 2..Len(food_cols) :
         foodf.val[food_data[i][1]][food_cols[j]] = food_data[i][j]

\* a ranking call failed after an object had been built with a warning
C9_Witness ==
    /\ ret.op = "macro_perRupee" /\ ret.status = "ValueError"
    /\ Len(insts) >= 1
    /\ "pizza" \in Range(insts[1].consumption_sr.index)

Views == {"stats_breakup", "consolidated_stats", "macro_breakup"}

ViewOf(op, self) ==
    IF op = "stats_breakup" THEN stats_breakup(self)
    ELSE IF op = "consolidated_stats" THEN consolidated_stats(self)
    ELSE macro_breakup(self)

\* C10: no call changes what a view of an existing object returns, and a
\* view call returns the view as it was before the call; so every call of
\* a view returns what its first call returned.
C10_ViewsFinal ==
    [][/\ Len(insts) <= Len(insts')
       /\ \A i \in 1..Len(insts) : \A v \in Views :
            ViewOf(v, insts'[i]) = ViewOf(v, insts[i])
       /\ ret'.op \in Views =>
            /\ ret'.inst \in 1..Len(insts)
            /\ ret'.value = ViewOf(ret'.op, insts[ret'.inst])]_vars

\* the first object was queried after a second, different one was built
C10_Witness ==
    /\ Len(insts) >= 2
    /\ insts[1].emp_sr # insts[2].emp_sr
    /\ ret.op = "consolidated_stats" /\ ret.inst = 1

====
